---- MODULE Spec2Model ----
(***************************************************************************)
(* Model of simple-router (src/src/lib.rs): a Router holds a vector of     *)
(* nodes (method, pattern, handler); route/get/post/put/delete return a    *)
(* new Router with one node appended; resolve scans the nodes in order.    *)
(*                                                                         *)
(* Text (patterns, paths, method texts) is a sequence of one-character     *)
(* strings, so that ends_with, pop, replace and split are computed the way *)
(* the code computes them.  A handler (fn() -> String) is represented by   *)
(* the text it returns.                                                    *)
(***************************************************************************)
EXTENDS Integers, Sequences, FiniteSets, TLC

VARIABLES router, receiver, registered, op, call, result

vars == <<router, receiver, registered, op, call, result>>

(***************************************************************************)
(* Bounds of the model.                                                    *)
(***************************************************************************)
MaxNodes == 1
MaxPatLen == 1
MaxPathLen == 2
MaxRun == 3
\* Bounds of the registration-only specification.
MaxRegNodes == 2
MaxRegPatLen == 2

(***************************************************************************)
(* Text helpers.                                                           *)
(***************************************************************************)
Sep == "/"
Wild == <<"*">>

RECURSIVE StringsUpTo(_, _)
StringsUpTo(chars, n) ==
    IF n = 0 THEN {<<>>}
    ELSE LET shorter == StringsUpTo(chars, n - 1)
         IN  shorter \cup {Append(s, c) : s \in shorter, c \in chars}

PatternChars == {"/", "a", "*"}
PathChars == {"/", "a"}
Patterns == StringsUpTo(PatternChars, MaxPatLen)
LongPatterns == StringsUpTo(PatternChars, MaxRegPatLen)
Paths == StringsUpTo(PathChars, MaxPathLen)

(***************************************************************************)
(* enum Method and TryFrom<&str> for Method.                               *)
(***************************************************************************)
Method == {"GET", "POST", "PUT", "DELETE"}

Ok(v) == [ok |-> TRUE, val |-> v]
Err(e) == [ok |-> FALSE, val |-> e]

\* Variant of TryFrom that knows the upper-case spellings only.
TryFromUpperOnly(value) ==
    CASE value = <<"G", "E", "T">> -> Ok("GET")
      [] value = <<"P", "O", "S", "T">> -> Ok("POST")
      [] value = <<"P", "U", "T">> -> Ok("PUT")
      [] value = <<"D", "E", "L", "E", "T", "E">> -> Ok("DELETE")
      [] OTHER -> Err("invalid method")

TryFrom(value) ==
    CASE value = <<"G", "E", "T">> \/ value = <<"g", "e", "t">> -> Ok("GET")
      [] value = <<"P", "O", "S", "T">> \/ value = <<"p", "o", "s", "t">> -> Ok("POST")
      [] value = <<"P", "U", "T">> \/ value = <<"p", "u", "t">> -> Ok("PUT")
      [] value = <<"D", "E", "L", "E", "T", "E">>
           \/ value = <<"d", "e", "l", "e", "t", "e">> -> Ok("DELETE")
      [] OTHER -> Err("invalid method")

(***************************************************************************)
(* String operations used by route and resolve.                            *)
(***************************************************************************)
EndsWithSep(a) == Len(a) > 0 /\ a[Len(a)] = Sep

Pop(a) == IF Len(a) > 0 THEN SubSeq(a, 1, Len(a) - 1) ELSE a

ContainsDouble(a) == \E i \in 1..(Len(a) - 1) : a[i] = Sep /\ a[i + 1] = Sep

\* a.replace("//", "/"): one left-to-right pass over non-overlapping matches.
RECURSIVE ReplaceDouble(_)
ReplaceDouble(a) ==
    IF Len(a) = 0 THEN <<>>
    ELSE IF Len(a) >= 2 /\ a[1] = Sep /\ a[2] = Sep
         THEN <<Sep>> \o ReplaceDouble(SubSeq(a, 3, Len(a)))
         ELSE <<a[1]>> \o ReplaceDouble(Tail(a))

\* a.split('/'): the segments between separators (one more than separators).
RECURSIVE SplitFrom(_, _, _)
SplitFrom(a, i, cur) ==
    IF i > Len(a) THEN <<cur>>
    ELSE IF a[i] = Sep THEN <<cur>> \o SplitFrom(a, i + 1, <<>>)
         ELSE SplitFrom(a, i + 1, Append(cur, a[i]))

Split(a) == SplitFrom(a, 1, <<>>)

\* Variant of Collapse that replaces once instead of looping.
CollapseOnce(a) == ReplaceDouble(a)

\* resolve, lines 41-45: replace "//" by "/" while the text contains "//".
RECURSIVE Collapse(_)
Collapse(a) == IF ContainsDouble(a) THEN Collapse(ReplaceDouble(a)) ELSE a

\* Variant of NormalizePath that keeps a trailing separator.
NormalizePathKeepTrailing(path) == Collapse(path)

\* resolve, lines 38-54: the path the scan compares against the patterns.
NormalizePath(path) ==
    LET a == Collapse(path)
    IN  IF EndsWithSep(a) THEN Pop(a) ELSE a

\* route, lines 11-14: the pattern as stored.
StoredPattern(pattern) == IF EndsWithSep(pattern) THEN Pop(pattern) ELSE pattern

(***************************************************************************)
(* Router, Node and registration.                                          *)
(***************************************************************************)
Handlers == {"foo", "no match routes"}

NoMatch == "no match routes"

Node(method, pattern, handler) ==
    [method |-> method, pattern |-> pattern, handler |-> handler]

RouterDefault == [nodes |-> <<>>]

\* Variant of route that pushes onto the receiver's own vector.
routeInPlace(self, method, pattern, handler) ==
    LET pushed == [nodes |-> Append(self.nodes,
                                    Node(method, StoredPattern(pattern), handler))]
    IN  [self |-> pushed, ret |-> pushed]

\* route(&self, ...): self as it is after the call, and the Router returned.
route(self, method, pattern, handler) ==
    [self |-> self,
     ret  |-> [nodes |-> Append(self.nodes,
                                Node(method, StoredPattern(pattern), handler))]]

get(self, pattern, handler) == route(self, "GET", pattern, handler)
post(self, pattern, handler) == route(self, "POST", pattern, handler)
put(self, pattern, handler) == route(self, "PUT", pattern, handler)
delete(self, pattern, handler) == route(self, "DELETE", pattern, handler)

(***************************************************************************)
(* resolve.                                                                *)
(***************************************************************************)
Min(x, y) == IF x < y THEN x ELSE y

\* paths.zip(node_paths).all(|(str, node_str)| str == node_str || node_str == "*")
ZipAll(paths, node_paths) ==
    \A i \in 1..Min(Len(paths), Len(node_paths)) :
        paths[i] = node_paths[i] \/ node_paths[i] = Wild

\* Variant of PatternMatches without the count test.
PatternMatchesNoCount(path, pattern) == ZipAll(Split(path), Split(pattern))

\* lines 58-67: the count test, then the pairwise test.
PatternMatches(path, pattern) ==
    LET paths == Split(path)
        node_paths == Split(pattern)
    IN  Len(paths) = Len(node_paths) /\ ZipAll(paths, node_paths)

\* Variant of MethodEq that takes every node as a candidate.
MethodEqAny(node_method, method) == TRUE

\* line 37
MethodEq(node_method, method) == node_method = method

\* The for loop of resolve from node i on: the node whose handler is called
\* ("hit"), the unwrap of a failed parse ("panic"), or the end of the loop.
RECURSIVE ScanFrom(_, _, _, _)
ScanFrom(nodes, i, method, path) ==
    IF i > Len(nodes) THEN [kind |-> "end", idx |-> 0]
    ELSE LET parsed == TryFrom(method)
         IN  IF ~parsed.ok THEN [kind |-> "panic", idx |-> i]
             ELSE IF MethodEq(nodes[i].method, parsed.val)
                     /\ PatternMatches(NormalizePath(path), nodes[i].pattern)
                  THEN [kind |-> "hit", idx |-> i]
                  ELSE ScanFrom(nodes, i + 1, method, path)

\* Variant of Scan that parses the method before the loop.
ScanParseFirst(self, method, path) ==
    IF ~TryFrom(method).ok THEN [kind |-> "panic", idx |-> 0]
    ELSE ScanFrom(self.nodes, 1, method, path)

Scan(self, method, path) == ScanFrom(self.nodes, 1, method, path)

Returned(text) == [kind |-> "return", value |-> text]
Panicked == [kind |-> "panic", value |-> "unwrap on Err"]
NoResult == [kind |-> "none", value |-> ""]

resolve(self, method, path) ==
    LET s == Scan(self, method, path)
    IN  CASE s.kind = "hit" -> Returned(self.nodes[s.idx].handler)
          [] s.kind = "panic" -> Panicked
          [] OTHER -> Returned(NoMatch)

(***************************************************************************)
(* The program: a caller holds two Router values, the one the last         *)
(* registration returned (router) and the one it was called on (receiver), *)
(* registers on either of them and resolves against router.  op, call and  *)
(* result describe the call in progress: op = "idle" between calls, and a  *)
(* call's name from the call until the caller takes its value (Return).    *)
(* A panic in resolve ends the program.  registered keeps, for each node   *)
(* of router, the pattern text as the caller gave it.  A registration on  *)
(* receiver is listed only while receiver differs from router (otherwise   *)
(* it is the registration on router).                                      *)
(***************************************************************************)
GET == <<"G", "E", "T">>
GARBAGE == <<"G", "A", "R", "B", "A", "G", "E">>
ResolveTexts == {GET, <<"p", "o", "s", "t">>, <<"P", "U", "T">>, GARBAGE}

NoCall == [on |-> "router"]

Init ==
    /\ router = RouterDefault
    /\ receiver = RouterDefault
    /\ registered = <<>>
    /\ op = "idle"
    /\ call = NoCall
    /\ result = NoResult

Held(on) == IF on = "router" THEN router ELSE receiver

Registers(name, on, method, pattern, handler, r, maxNodes) ==
    /\ op = "idle"
    /\ on = "receiver" => receiver # router
    /\ Len(Held(on).nodes) < maxNodes
    /\ router' = r.ret
    /\ receiver' = r.self
    /\ registered' = Append(SubSeq(registered, 1, Len(Held(on).nodes)), pattern)
    /\ op' = name
    /\ call' = [on |-> on, method |-> method, pattern |-> pattern,
                handler |-> handler]
    /\ result' = NoResult

Route(patterns, maxNodes) ==
    \E on \in {"router", "receiver"}, m \in Method, p \in patterns, h \in Handlers :
        Registers("route", on, m, p, h, route(Held(on), m, p, h), maxNodes)

Get(patterns, maxNodes) ==
    \E on \in {"router", "receiver"}, p \in patterns, h \in Handlers :
        Registers("get", on, "GET", p, h, get(Held(on), p, h), maxNodes)

Post(patterns, maxNodes) ==
    \E on \in {"router", "receiver"}, p \in patterns, h \in Handlers :
        Registers("post", on, "POST", p, h, post(Held(on), p, h), maxNodes)

Put(patterns, maxNodes) ==
    \E on \in {"router", "receiver"}, p \in patterns, h \in Handlers :
        Registers("put", on, "PUT", p, h, put(Held(on), p, h), maxNodes)

Delete(patterns, maxNodes) ==
    \E on \in {"router", "receiver"}, p \in patterns, h \in Handlers :
        Registers("delete", on, "DELETE", p, h, delete(Held(on), p, h), maxNodes)

Resolve ==
    \E m \in ResolveTexts, p \in Paths :
        /\ op = "idle"
        /\ op' = "resolve"
        /\ call' = [on |-> "router", method |-> m, path |-> p]
        /\ result' = resolve(router, m, p)
        /\ UNCHANGED <<router, receiver, registered>>

Return ==
    /\ op # "idle"
    /\ result.kind # "panic"
    /\ op' = "idle"
    /\ call' = NoCall
    /\ result' = NoResult
    /\ UNCHANGED <<router, receiver, registered>>

Next ==
    \/ Route(Patterns, MaxNodes)
    \/ Get(Patterns, MaxNodes)
    \/ Post(Patterns, MaxNodes)
    \/ Put(Patterns, MaxNodes)
    \/ Delete(Patterns, MaxNodes)
    \/ Resolve
    \/ Return

Spec == Init /\ [][Next]_vars

(***************************************************************************)
(* Registration on its own (the start of the program, before any resolve), *)
(* with longer pattern texts.                                              *)
(***************************************************************************)
NextRegister ==
    \/ Route(LongPatterns, MaxRegNodes)
    \/ Get(LongPatterns, MaxRegNodes)
    \/ Post(LongPatterns, MaxRegNodes)
    \/ Put(LongPatterns, MaxRegNodes)
    \/ Delete(LongPatterns, MaxRegNodes)
    \/ Return

SpecRegister == Init /\ [][NextRegister]_vars

(***************************************************************************)
(* Method::try_from on its own: the text is chosen at the start, and       *)
(* ParseCall applies try_from to it.                                       *)
(***************************************************************************)
MethodName ==
    [GET |-> <<"G", "E", "T">>, POST |-> <<"P", "O", "S", "T">>,
     PUT |-> <<"P", "U", "T">>, DELETE |-> <<"D", "E", "L", "E", "T", "E">>]

LowerOf ==
    [G |-> "g", E |-> "e", T |-> "t", P |-> "p", O |-> "o", S |-> "s",
     U |-> "u", D |-> "d", L |-> "l", A |-> "a", R |-> "r", B |-> "b"]

LowerChar(c) == IF c \in DOMAIN LowerOf THEN LowerOf[c] ELSE c
UpperChar(c) ==
    IF \E u \in DOMAIN LowerOf : LowerOf[u] = c
    THEN CHOOSE u \in DOMAIN LowerOf : LowerOf[u] = c
    ELSE c

LowerText(t) == [i \in 1..Len(t) |-> LowerChar(t[i])]
UpperText(t) == [i \in 1..Len(t) |-> UpperChar(t[i])]

\* Every way of writing name with each letter in either case.
CaseVariants(name) ==
    {[i \in 1..Len(name) |-> IF i \in S THEN LowerChar(name[i]) ELSE name[i]] :
        S \in SUBSET (1..Len(name))}

MethodTexts ==
    UNION {CaseVariants(MethodName[m]) : m \in Method}
    \cup {GARBAGE, LowerText(GARBAGE), <<>>, <<"G", "E">>, <<"G", "E", "T", "S">>,
          <<"P", "A", "T", "C", "H">>, <<"g", "e", "t", "/">>}

InitParse ==
    /\ router = RouterDefault
    /\ receiver = RouterDefault
    /\ registered = <<>>
    /\ op = "idle"
    /\ call \in {[on |-> "router", value |-> t] : t \in MethodTexts}
    /\ result = NoResult

ParseCall ==
    /\ op = "idle"
    /\ op' = "try_from"
    /\ result' = TryFrom(call.value)
    /\ UNCHANGED <<router, receiver, registered, call>>

NextParse == ParseCall

SpecParse == InitParse /\ [][NextParse]_vars

(***************************************************************************)
(* Properties.                                                             *)
(***************************************************************************)
RegOps == {"route", "get", "post", "put", "delete"}

Nodes == router.nodes
NodeIdx == 1..Len(router.nodes)

ResolveDone == op = "resolve"
ValidResolve == op = "resolve" /\ TryFrom(call.method).ok
ParsedMethod == TryFrom(call.method).val
QueryPath == NormalizePath(call.path)

\* The match of the specification: the same number of segments, and each
\* pattern segment equal to the path segment or equal to "*".
SegmentwiseMatch(path, pattern) ==
    LET ps == Split(path)
        ns == Split(pattern)
    IN  Len(ps) = Len(ns) /\ \A i \in 1..Len(ns) : ns[i] = ps[i] \/ ns[i] = Wild

Matching ==
    {i \in NodeIdx : Nodes[i].method = ParsedMethod
                     /\ SegmentwiseMatch(QueryPath, Nodes[i].pattern)}

First(S) == CHOOSE i \in S : \A j \in S : i <= j

InvalidMethodError == [kind |-> "error", value |-> "InvalidMethod"]

\* C1: resolve called with a method text that is no supported verb ends with
\* a recoverable InvalidMethod error, whatever the registry and the path: no
\* panic, no handler result, no "no match" result.
C1_InvalidMethodIsError ==
    (ResolveDone /\ ~TryFrom(call.method).ok) => result = InvalidMethodError

\* C2: every stored pattern is normalized: no two consecutive separators, no
\* trailing separator, equal to the normalization resolve applies to the text
\* the caller registered.
C2_StoredPatternsNormalized ==
    \A i \in NodeIdx :
        /\ ~ContainsDouble(Nodes[i].pattern)
        /\ ~EndsWithSep(Nodes[i].pattern)
        /\ Nodes[i].pattern = NormalizePath(registered[i])

\* C3: with a valid method, resolve returns the handler result of the earliest
\* node whose method and pattern match, and returns the "no match" text if and
\* only if no node matches.
C3_FirstMatchWins ==
    ValidResolve =>
        /\ result.kind = "return"
        /\ Matching # {} => result.value = Nodes[First(Matching)].handler
        /\ result.value = NoMatch <=> Matching = {}

\* The part of C3 that does not compare against the "no match" text: the
\* value returned is the earliest matching node's handler result, and the
\* "no match" text when no node matches.
FirstMatchValue ==
    ValidResolve =>
        result = Returned(IF Matching = {} THEN NoMatch
                          ELSE Nodes[First(Matching)].handler)

\* C4: for a path P that was registered as a pattern and a valid method,
\* resolve gives the same result for P, P + "/" and P + "//".
C4_TrailingSeparatorEquivalence ==
    (ValidResolve /\ \E i \in NodeIdx : registered[i] = call.path) =>
        /\ resolve(router, call.method, call.path \o <<Sep>>) = result
        /\ resolve(router, call.method, call.path \o <<Sep, Sep>>) = result

C4_Witness ==
    /\ ValidResolve
    /\ \E i \in NodeIdx : registered[i] = call.path
    /\ Len(call.path) > 0
    /\ ~EndsWithSep(call.path)
    /\ result = Returned("foo")

C7_CaseInsensitive ==
    op = "try_from" =>
        \A m \in Method : result = Ok(m) <=> UpperText(call.value) = MethodName[m]

\* C7 as amended: a text parses to a method exactly when it is the method's
\* name all in upper case or all in lower case; every other text, mixed case
\* included, is rejected.
C7_UpperOrLowerOnly ==
    op = "try_from" =>
        /\ \A m \in Method :
               result = Ok(m) <=> \/ call.value = MethodName[m]
                                  \/ call.value = LowerText(MethodName[m])
        /\ result.ok \/ result = Err("invalid method")

C7_Witness ==
    /\ op = "try_from"
    /\ call.value = <<"G", "e", "t">>
    /\ result = Err("invalid method")

\* C8: resolve never picks a node registered under another method than the
\* one its method text parses to; when no node has that method the result is
\* "no match".
C8_MethodIsolation ==
    ValidResolve =>
        LET s == Scan(router, call.method, call.path)
        IN  /\ s.kind = "hit" => Nodes[s.idx].method = ParsedMethod
            /\ (\A i \in NodeIdx : Nodes[i].method # ParsedMethod)
                   => result = Returned(NoMatch)

\* Only a GET node, whose pattern matches the path, and a POST request.
C8_Witness ==
    /\ ValidResolve
    /\ Len(Nodes) = 1
    /\ Nodes[1].method = "GET"
    /\ Nodes[1].handler = "foo"
    /\ ParsedMethod = "POST"
    /\ SegmentwiseMatch(QueryPath, Nodes[1].pattern)
    /\ result = Returned(NoMatch)

Run(n) == [i \in 1..n |-> Sep]
WithRun(path, i, n) == SubSeq(path, 1, i - 1) \o Run(n) \o SubSeq(path, i + 1, Len(path))

C10_EmptyRegistryNeverParses ==
    ResolveDone =>
        /\ Len(Nodes) = 0 => result = Returned(NoMatch)
        /\ (Len(Nodes) > 0 /\ ~TryFrom(call.method).ok) => result = Panicked

C10_Witness ==
    /\ ResolveDone
    /\ Len(Nodes) = 0
    /\ ~TryFrom(call.method).ok
    /\ result = Returned(NoMatch)

====
